---- MODULE Spec2Model ----
(***************************************************************************)
(* Model of the three lint-report scripts of frontend/scripts:             *)
(*   lint_files.py           (PathListing)                                 *)
(*   lint_report_summary.py  (CompactSummary)                              *)
(*   lint_summary.py         (DetailedSummary)                             *)
(* Each script is a straight-line Python module body.  A run of a script   *)
(* is modelled statement by statement; the report file never changes.      *)
(***************************************************************************)
EXTENDS Integers, Sequences, FiniteSets, TLC

VARIABLES
    file,      \* lint-report.json on disk: [exists, valid, value]
    mode,      \* the script whose process is running, or "idle"
    pc,        \* the statement the running script is at
    data,      \* the script's variable `data`
    entries,   \* the script's variable `entries` (`files` in lint_files.py)
    i,         \* position of the outer for loop in `entries`
    msgs,      \* the sequence the inner for loop of lint_summary.py iterates
    j,         \* position of the inner for loop in `msgs`
    status,    \* per script: "idle", "running" or "exited"
    stdout,    \* per script: the lines printed
    stderr,    \* per script: what reached the error stream
    exitcode   \* per script: the process exit status once exited

vars == <<file, mode, pc, data, entries, i, msgs, j, status, stdout, stderr, exitcode>>

Modes == {"lint_files", "lint_report_summary", "lint_summary"}

(***************************************************************************)
(* Bounds of the explored inputs.                                          *)
(***************************************************************************)
MaxShort == 2      \* longest report whose entries are enumerated exhaustively
MaxEntries == 22   \* longest periodic report (exceeds the display cap)
MaxMsgs == 2       \* longest enumerated messages sequence

(***************************************************************************)
(* JSON values as json.loads returns them, tagged by their Python type.    *)
(***************************************************************************)
JNull == [type |-> "null"]
JBool(b) == [type |-> "bool", b |-> b]
JNum(n) == [type |-> "number", n |-> n]
JStr(s) == [type |-> "string", s |-> s]
JArr(items) == [type |-> "array", items |-> items]
JObj(fields) == [type |-> "object", fields |-> fields]

NoFields == [k \in {} |-> JNull]

\* An object key left out of the document.
Absent == [type |-> "absent"]

\* The object holding the keys of f that are not Absent.
MkObj(f) == JObj([k \in {k \in DOMAIN f : f[k].type # "absent"} |-> f[k]])

(***************************************************************************)
(* Python primitives the scripts use.                                      *)
(***************************************************************************)
Ok(v) == [exc |-> "", val |-> v]
Raise(e) == [exc |-> e, val |-> <<>>]

PyNone == JNull

\* dict.get(key, default)
PyGet(d, k, default) == IF k \in DOMAIN d.fields THEN d.fields[k] ELSE default

\* bool(v)
Truthy(v) ==
    CASE v.type = "null" -> FALSE
      [] v.type = "bool" -> v.b
      [] v.type = "number" -> v.n # 0
      [] v.type = "string" -> v.s # ""
      [] v.type = "array" -> Len(v.items) # 0
      [] v.type = "object" -> DOMAIN v.fields # {}

RECURSIVE SetToSeq(_)
SetToSeq(S) == IF S = {} THEN <<>>
               ELSE LET x == CHOOSE x \in S : TRUE IN <<x>> \o SetToSeq(S \ {x})

\* iter(v) drained into a list: a list yields its items, a dict its keys, a
\* str its characters (only their number is kept for strings longer than one
\* character); None, bool and numbers are not iterable.
PyIter(v) ==
    CASE v.type = "array" -> Ok(v.items)
      [] v.type = "object" -> Ok([n \in 1..Cardinality(DOMAIN v.fields) |->
                                    JStr(SetToSeq(DOMAIN v.fields)[n])])
      [] v.type = "string" -> Ok([n \in 1..Len(v.s) |->
                                    IF Len(v.s) = 1 THEN v ELSE JStr("?")])
      [] OTHER -> Raise("TypeError")

\* len(v)
PyLen(v) ==
    CASE v.type = "array" -> Ok(Len(v.items))
      [] v.type = "object" -> Ok(Cardinality(DOMAIN v.fields))
      [] v.type = "string" -> Ok(Len(v.s))
      [] OTHER -> Raise("TypeError")

\* str(v) as an f-string formats it
PyStr(v) ==
    CASE v.type = "null" -> "None"
      [] v.type = "bool" -> IF v.b THEN "True" ELSE "False"
      [] v.type = "number" -> ToString(v.n)
      [] v.type = "string" -> v.s
      [] v.type = "array" -> "[...]"
      [] v.type = "object" -> "{...}"

(***************************************************************************)
(* The list comprehensions.                                                *)
(***************************************************************************)
\* the filter looking at errorCount only
FilesCondErrorsOnly(entry) == Truthy(PyGet(entry, "errorCount", PyNone))

\* lint_files.py:6  entry.get("errorCount") or entry.get("warningCount")
FilesCond(entry) ==
    Truthy(PyGet(entry, "errorCount", PyNone)) \/ Truthy(PyGet(entry, "warningCount", PyNone))

\* lint_report_summary.py:9
ReportSummaryCond(entry) ==
    Truthy(PyGet(entry, "errorCount", PyNone)) \/ Truthy(PyGet(entry, "warningCount", PyNone))

\* the filter written with `and` in place of `or`
SummaryCondBoth(entry) ==
    Truthy(PyGet(entry, "errorCount", PyNone)) /\ Truthy(PyGet(entry, "warningCount", PyNone))

\* lint_summary.py:9
SummaryCond(entry) ==
    Truthy(PyGet(entry, "errorCount", PyNone)) \/ Truthy(PyGet(entry, "warningCount", PyNone))

\* the comprehension building its list back to front
RECURSIVE FilesCompReversed(_, _)
FilesCompReversed(items, acc) ==
    IF Len(items) = 0 THEN Ok(acc)
    ELSE LET entry == Head(items) IN
         IF entry.type # "object" THEN Raise("AttributeError")
         ELSE IF FilesCond(entry)
              THEN IF "filePath" \in DOMAIN entry.fields
                   THEN FilesCompReversed(Tail(items), <<entry.fields["filePath"]>> \o acc)
                   ELSE Raise("KeyError")
              ELSE FilesCompReversed(Tail(items), acc)

\* lint_files.py:6  [entry["filePath"] for entry in data if ...]
RECURSIVE FilesComp(_, _)
FilesComp(items, acc) ==
    IF Len(items) = 0 THEN Ok(acc)
    ELSE LET entry == Head(items) IN
         IF entry.type # "object" THEN Raise("AttributeError")
         ELSE IF FilesCond(entry)
              THEN IF "filePath" \in DOMAIN entry.fields
                   THEN FilesComp(Tail(items), Append(acc, entry.fields["filePath"]))
                   ELSE Raise("KeyError")
              ELSE FilesComp(Tail(items), acc)

\* lint_report_summary.py:9  [entry for entry in data if ...]
RECURSIVE ReportSummaryComp(_, _)
ReportSummaryComp(items, acc) ==
    IF Len(items) = 0 THEN Ok(acc)
    ELSE LET entry == Head(items) IN
         IF entry.type # "object" THEN Raise("AttributeError")
         ELSE IF ReportSummaryCond(entry)
              THEN ReportSummaryComp(Tail(items), Append(acc, entry))
              ELSE ReportSummaryComp(Tail(items), acc)

\* lint_summary.py:9  [entry for entry in data if ...]
RECURSIVE SummaryComp(_, _)
SummaryComp(items, acc) ==
    IF Len(items) = 0 THEN Ok(acc)
    ELSE LET entry == Head(items) IN
         IF entry.type # "object" THEN Raise("AttributeError")
         ELSE IF SummaryCond(entry)
              THEN SummaryComp(Tail(items), Append(acc, entry))
              ELSE SummaryComp(Tail(items), acc)

Comprehension(m, items) ==
    CASE m = "lint_files" -> FilesComp(items, <<>>)
      [] m = "lint_report_summary" -> ReportSummaryComp(items, <<>>)
      [] m = "lint_summary" -> SummaryComp(items, <<>>)

(***************************************************************************)
(* Output lines, one record per line written by a print call.              *)
(***************************************************************************)
\* print(path)
PathLine(p) == [kind |-> "path", filePath |-> PyStr(p)]
\* print(f"{len(entries)} files with issues")
HeaderLine(n) == [kind |-> "header", count |-> n]
\* print(f"{entry['filePath']} - {count} messages")
EntryLine(p, count) == [kind |-> "entry", filePath |-> PyStr(p), count |-> count]
\* print(f"\n{entry['filePath']}") writes an empty line and the path line
BlankLine == [kind |-> "blank"]
\* print(f"  {rule}: {message} @{line}:{col}")
MessageLine(rule, message, line, col) ==
    [kind |-> "message", rule |-> PyStr(rule), message |-> PyStr(message),
     line |-> PyStr(line), col |-> PyStr(col)]

NotFoundMessage == "lint-report.json not found. Run eslint with JSON output first."

\* lint_report_summary.py:12  entries[:20]
DisplayCap == 20
\* the slice left out
Slice20Uncapped(s) == s
Slice20(s) == SubSeq(s, 1, IF Len(s) < DisplayCap THEN Len(s) ELSE DisplayCap)

\* the position defaulting to the first line instead of 0
RenderMessageLineOne(msg) ==
    MessageLine(PyGet(msg, "ruleId", JStr("<no-rule>")),
                PyGet(msg, "message", JStr("<no-message>")),
                PyGet(msg, "line", JNum(1)),
                PyGet(msg, "column", JNum(0)))

\* lint_summary.py:15-19
RenderMessage(msg) ==
    MessageLine(PyGet(msg, "ruleId", JStr("<no-rule>")),
                PyGet(msg, "message", JStr("<no-message>")),
                PyGet(msg, "line", JNum(0)),
                PyGet(msg, "column", JNum(0)))

(***************************************************************************)
(* The report documents explored.                                          *)
(***************************************************************************)
PathOf(n) == JStr("f" \o ToString(n) \o ".ts")

Entry(path, err, warn, messages) ==
    MkObj([filePath |-> path, errorCount |-> err, warningCount |-> warn,
           messages |-> messages])

MsgKeys == {"ruleId", "message", "line", "column"}
MsgFull ==
    JObj([ruleId |-> JStr("no-unused-vars"), message |-> JStr("x is unused"),
          line |-> JNum(3), column |-> JNum(5)])
\* every way of leaving keys out of a message
MsgVariants == {JObj([k \in K |-> MsgFull.fields[k]]) : K \in SUBSET MsgKeys}

SeqsUpTo(S, n) == UNION {[1..k -> S] : k \in 0..n}

\* one-entry reports: every combination of present, zero and absent counts
Shapes == {Absent, JNum(0), JNum(1)} \X {Absent, JNum(0), JNum(2)}
              \X {Absent, JArr(<<MsgFull>>)}
\* the entry kinds that short reports of several entries are made of
CoreShapes == {<<JNum(1), JNum(2), Absent>>,
               <<JNum(0), JNum(0), JArr(<<MsgFull>>)>>,
               <<Absent, Absent, Absent>>,
               <<Absent, JNum(2), JArr(<<MsgFull>>)>>,
               <<JNum(1), Absent, JArr(<<>>)>>}
ShortReports ==
    {JArr([n \in 1..Len(f) |-> Entry(PathOf(n), f[n][1], f[n][2], f[n][3])]) :
        f \in [1..1 -> Shapes] \cup SeqsUpTo(CoreShapes, MaxShort)}

\* long reports around the display cap: a pattern of entry kinds repeated
LongKinds == {<<JNum(1), JNum(0), JArr(<<MsgFull>>)>>,
              <<JNum(0), JNum(0), JArr(<<MsgFull>>)>>,
              <<Absent, JNum(3), Absent>>}
LongReports ==
    {JArr([n \in 1..len |->
             LET k == pat[((n - 1) % Len(pat)) + 1]
             IN Entry(PathOf(n), k[1], k[2], k[3])]) :
        len \in (DisplayCap - 1)..MaxEntries,
        pat \in SeqsUpTo(LongKinds, 2) \ {<<>>}}

\* the message kinds that messages sequences of several messages are made of
MsgCore == {MsgFull, JObj(NoFields),
            JObj([ruleId |-> JStr("no-undef"), line |-> JNum(3)])}
\* one flagged entry with one message of every variant, or a sequence of messages
MessageReports ==
    {JArr(<<Entry(PathOf(1), JNum(1), JNum(0), JArr(ms))>>) :
        ms \in [1..1 -> MsgVariants] \cup SeqsUpTo(MsgCore, MaxMsgs)}

\* documents that parse but are not Reports of the data model
OddDocuments ==
    {JNull, JBool(TRUE), JNum(5), JStr(""), JStr("x"), JStr("ab"),
     JObj(NoFields), JObj([a |-> JNum(1)]),
     JArr(<<JNum(7)>>), JArr(<<JArr(<<>>)>>), JArr(<<JStr("a.ts")>>),
     JArr(<<Entry(PathOf(1), JNum(1), JNum(0), Absent), JNum(7)>>),
     JArr(<<Entry(PathOf(1), JNum(0), JNum(0), Absent), JNull>>),
     JArr(<<Entry(Absent, JNum(1), JNum(0), Absent)>>),
     JArr(<<Entry(PathOf(1), JNum(1), JNum(0), Absent),
            Entry(Absent, JNum(0), JNum(1), JArr(<<MsgFull>>))>>),
     JArr(<<Entry(Absent, JNum(0), Absent, Absent)>>),
     JArr(<<Entry(PathOf(1), JNum(-1), JNum(0), Absent)>>),
     JArr(<<Entry(PathOf(1), JNum(0), JNum(-2), JArr(<<MsgFull>>))>>),
     JArr(<<Entry(PathOf(1), JNull, JNull, Absent)>>),
     JArr(<<Entry(PathOf(1), JNull, JNum(1), Absent)>>),
     JArr(<<Entry(PathOf(1), JNum(1), JNum(0), JNull)>>),
     JArr(<<Entry(PathOf(1), JNum(1), JNum(0), JNum(4))>>),
     JArr(<<Entry(PathOf(1), JNum(1), JNum(0), JArr(<<MsgFull, JNum(7)>>))>>),
     JArr(<<Entry(PathOf(1), JNum(1), JNum(0), JArr(<<JStr("m")>>))>>),
     JArr(<<Entry(PathOf(1), JNum(1), JNum(0),
                  JArr(<<JObj([ruleId |-> JNull, message |-> JStr("Parsing error")])>>))>>)}

Documents == ShortReports \cup LongReports \cup MessageReports \cup OddDocuments

MissingFile == [exists |-> FALSE, valid |-> FALSE, value |-> JNull]
InvalidFile == [exists |-> TRUE, valid |-> FALSE, value |-> JNull]
Files == {MissingFile, InvalidFile}
             \cup {[exists |-> TRUE, valid |-> TRUE, value |-> d] : d \in Documents}

(***************************************************************************)
(* Initial state: the file is whatever is on disk, no script has run.      *)
(***************************************************************************)
Init ==
    /\ file \in Files
    /\ mode = "idle"
    /\ pc = "none"
    /\ data = JNull
    /\ entries = <<>>
    /\ i = 0
    /\ msgs = <<>>
    /\ j = 0
    /\ status = [m \in Modes |-> "idle"]
    /\ stdout = [m \in Modes |-> <<>>]
    /\ stderr = [m \in Modes |-> ""]
    /\ exitcode = [m \in Modes |-> 0]

\* the process ends: its variables are gone, its exit status is recorded
Terminate(code, err) ==
    /\ status' = [status EXCEPT ![mode] = "exited"]
    /\ exitcode' = [exitcode EXCEPT ![mode] = code]
    /\ stderr' = [stderr EXCEPT ![mode] = err]
    /\ mode' = "idle"
    /\ pc' = "none"
    /\ data' = JNull
    /\ entries' = <<>>
    /\ i' = 0
    /\ msgs' = <<>>
    /\ j' = 0

\* an exception nobody catches: traceback on the error stream, exit status 1
Uncaught(exc) == Terminate(1, exc) /\ UNCHANGED <<file, stdout>>

\* the first statement that does something: lint_files.py has no existence check
FirstPc(m) == IF m = "lint_files" THEN "load" ELSE "exists"

\* the user runs one of the scripts
Start(m) ==
    /\ mode = "idle"
    /\ status[m] = "idle"
    /\ mode' = m
    /\ pc' = FirstPc(m)
    /\ status' = [status EXCEPT ![m] = "running"]
    /\ UNCHANGED <<file, data, entries, i, msgs, j, stdout, stderr, exitcode>>

\* lint_report_summary.py:5-6, lint_summary.py:5-6
CheckExists ==
    /\ mode \in Modes
    /\ pc = "exists"
    /\ IF ~file.exists
       THEN Terminate(1, NotFoundMessage) /\ UNCHANGED <<file, stdout>>
       ELSE /\ pc' = "load"
            /\ UNCHANGED <<file, mode, data, entries, i, msgs, j, status, stdout,
                           stderr, exitcode>>

\* data = json.loads(report_path.read_text(encoding="utf-8"))
LoadResult(f) ==
    IF ~f.exists THEN Raise("FileNotFoundError")
    ELSE IF ~f.valid THEN Raise("JSONDecodeError")
    ELSE Ok(f.value)

Load ==
    /\ mode \in Modes
    /\ pc = "load"
    /\ LET r == LoadResult(file) IN
       IF r.exc # "" THEN Uncaught(r.exc)
       ELSE /\ data' = r.val
            /\ pc' = "filter"
            /\ UNCHANGED <<file, mode, entries, i, msgs, j, status, stdout, stderr,
                           exitcode>>

\* the list comprehension over data, as a whole
FilterResult(m, d) ==
    LET it == PyIter(d) IN
    IF it.exc # "" THEN it ELSE Comprehension(m, it.val)

Filter ==
    /\ mode \in Modes
    /\ pc = "filter"
    /\ LET r == FilterResult(mode, data) IN
       IF r.exc # "" THEN Uncaught(r.exc)
       ELSE /\ entries' = r.val
            /\ i' = 1
            /\ pc' = IF mode = "lint_files" THEN "loop" ELSE "header"
            /\ UNCHANGED <<file, mode, data, msgs, j, status, stdout, stderr, exitcode>>

\* print(f"{len(entries)} files with issues")
PrintHeader ==
    /\ mode \in Modes
    /\ pc = "header"
    /\ stdout' = [stdout EXCEPT ![mode] = Append(@, HeaderLine(Len(entries)))]
    /\ pc' = "loop"
    /\ UNCHANGED <<file, mode, data, entries, i, msgs, j, status, stderr, exitcode>>

\* the display cap applied by every script
LoopSeqCapped(m, es) == Slice20(es)

\* the sequence the outer for loop runs over
LoopSeq(m, es) == IF m = "lint_report_summary" THEN Slice20(es) ELSE es

\* lint_files.py:7-8
PrintFile ==
    /\ mode = "lint_files"
    /\ pc = "loop"
    /\ i <= Len(LoopSeq(mode, entries))
    /\ stdout' = [stdout EXCEPT ![mode] = Append(@, PathLine(entries[i]))]
    /\ i' = i + 1
    /\ UNCHANGED <<file, mode, pc, data, entries, msgs, j, status, stderr, exitcode>>

\* the count taken from errorCount + warningCount instead of len(messages)
CompactResultCounts(entry) ==
    IF "filePath" \notin DOMAIN entry.fields THEN Raise("KeyError")
    ELSE Ok(EntryLine(entry.fields["filePath"],
                      PyGet(entry, "errorCount", JNum(0)).n
                          + PyGet(entry, "warningCount", JNum(0)).n))

\* lint_report_summary.py:13-14
CompactResult(entry) ==
    LET n == PyLen(PyGet(entry, "messages", JArr(<<>>))) IN
    IF n.exc # "" THEN n
    ELSE IF "filePath" \notin DOMAIN entry.fields THEN Raise("KeyError")
    ELSE Ok(EntryLine(entry.fields["filePath"], n.val))

PrintCompact ==
    /\ mode = "lint_report_summary"
    /\ pc = "loop"
    /\ i <= Len(LoopSeq(mode, entries))
    /\ LET r == CompactResult(LoopSeq(mode, entries)[i]) IN
       IF r.exc # "" THEN Uncaught(r.exc)
       ELSE /\ stdout' = [stdout EXCEPT ![mode] = Append(@, r.val)]
            /\ i' = i + 1
            /\ UNCHANGED <<file, mode, pc, data, entries, msgs, j, status, stderr,
                           exitcode>>

\* lint_summary.py:13
PrintDetailPath ==
    /\ mode = "lint_summary"
    /\ pc = "loop"
    /\ i <= Len(LoopSeq(mode, entries))
    /\ LET entry == entries[i] IN
       IF "filePath" \notin DOMAIN entry.fields THEN Uncaught("KeyError")
       ELSE /\ stdout' = [stdout EXCEPT ![mode] =
                            @ \o <<BlankLine, PathLine(entry.fields["filePath"])>>]
            /\ pc' = "messages"
            /\ UNCHANGED <<file, mode, data, entries, i, msgs, j, status, stderr,
                           exitcode>>

\* lint_summary.py:14, entering the inner loop
EnterMessages ==
    /\ mode = "lint_summary"
    /\ pc = "messages"
    /\ LET it == PyIter(PyGet(entries[i], "messages", JArr(<<>>))) IN
       IF it.exc # "" THEN Uncaught(it.exc)
       ELSE /\ msgs' = it.val
            /\ j' = 1
            /\ pc' = "message"
            /\ UNCHANGED <<file, mode, data, entries, i, status, stdout, stderr,
                           exitcode>>

\* msg["ruleId"] in place of msg.get("ruleId", ...)
MessageResultStrict(msg) ==
    IF msg.type # "object" THEN Raise("AttributeError")
    ELSE IF "ruleId" \notin DOMAIN msg.fields THEN Raise("KeyError")
    ELSE Ok(RenderMessage(msg))

\* lint_summary.py:15-19
MessageResult(msg) ==
    IF msg.type # "object" THEN Raise("AttributeError") ELSE Ok(RenderMessage(msg))

PrintMessage ==
    /\ mode = "lint_summary"
    /\ pc = "message"
    /\ j <= Len(msgs)
    /\ LET r == MessageResult(msgs[j]) IN
       IF r.exc # "" THEN Uncaught(r.exc)
       ELSE /\ stdout' = [stdout EXCEPT ![mode] = Append(@, r.val)]
            /\ j' = j + 1
            /\ UNCHANGED <<file, mode, pc, data, entries, i, msgs, status, stderr,
                           exitcode>>

\* lint_summary.py:14, the inner loop is exhausted
NextEntry ==
    /\ mode = "lint_summary"
    /\ pc = "message"
    /\ j > Len(msgs)
    /\ i' = i + 1
    /\ msgs' = <<>>
    /\ j' = 0
    /\ pc' = "loop"
    /\ UNCHANGED <<file, mode, data, entries, status, stdout, stderr, exitcode>>

\* the outer loop is exhausted and the module body ends
Finish ==
    /\ mode \in Modes
    /\ pc = "loop"
    /\ i > Len(LoopSeq(mode, entries))
    /\ Terminate(0, "")
    /\ UNCHANGED <<file, stdout>>

Next ==
    \/ \E m \in Modes : Start(m)
    \/ CheckExists
    \/ Load
    \/ Filter
    \/ PrintHeader
    \/ PrintFile
    \/ PrintCompact
    \/ PrintDetailPath
    \/ EnterMessages
    \/ PrintMessage
    \/ NextEntry
    \/ Finish

Spec == Init /\ [][Next]_vars

\* a started script is a running interpreter: it executes its next statement
Step ==
    \/ CheckExists
    \/ Load
    \/ Filter
    \/ PrintHeader
    \/ PrintFile
    \/ PrintCompact
    \/ PrintDetailPath
    \/ EnterMessages
    \/ PrintMessage
    \/ NextEntry
    \/ Finish

FairSpec == Spec /\ WF_vars(Step)

(***************************************************************************)
(* The data model of the specification, stated on the document itself.     *)
(***************************************************************************)
Min(a, b) == IF a < b THEN a ELSE b

IsPrefix(s, t) == Len(s) <= Len(t) /\ \A k \in 1..Len(s) : s[k] = t[k]

HasKey(o, k) == k \in DOMAIN o.fields

IsCountField(e, k) == ~HasKey(e, k) \/ (e.fields[k].type = "number" /\ e.fields[k].n >= 0)

IsOptional(o, k, t) == ~HasKey(o, k) \/ o.fields[k].type = t

IsMessage(msg) ==
    /\ msg.type = "object"
    /\ IsOptional(msg, "ruleId", "string")
    /\ IsOptional(msg, "message", "string")
    /\ IsOptional(msg, "line", "number")
    /\ IsOptional(msg, "column", "number")

IsFileEntry(e) ==
    /\ e.type = "object"
    /\ HasKey(e, "filePath")
    /\ e.fields["filePath"].type = "string"
    /\ IsCountField(e, "errorCount")
    /\ IsCountField(e, "warningCount")
    /\ \/ ~HasKey(e, "messages")
       \/ /\ e.fields["messages"].type = "array"
          /\ \A n \in 1..Len(e.fields["messages"].items) :
                 IsMessage(e.fields["messages"].items[n])

IsArrayOfObjects ==
    /\ file.exists
    /\ file.valid
    /\ file.value.type = "array"
    /\ \A n \in 1..Len(file.value.items) : file.value.items[n].type = "object"

\* the file holds a Report of the data model
IsReport ==
    /\ IsArrayOfObjects
    /\ \A n \in 1..Len(file.value.items) : IsFileEntry(file.value.items[n])

\* an array of objects, every entry with a filePath, every message an object
IsWellFormed ==
    /\ IsArrayOfObjects
    /\ \A n \in 1..Len(file.value.items) :
         LET e == file.value.items[n] IN
         /\ HasKey(e, "filePath")
         /\ \/ ~HasKey(e, "messages")
            \/ /\ e.fields["messages"].type = "array"
               /\ \A k \in 1..Len(e.fields["messages"].items) :
                      e.fields["messages"].items[k].type = "object"

CountOf(e, k) == IF HasKey(e, k) THEN e.fields[k].n ELSE 0

Flagged(e) == CountOf(e, "errorCount") > 0 \/ CountOf(e, "warningCount") > 0

FlaggedEntries == SelectSeq(file.value.items, Flagged)

MessagesOf(e) == IF HasKey(e, "messages") THEN e.fields["messages"].items ELSE <<>>

PathText(e) == e.fields["filePath"].s

IsKind(kind, l) == l.kind = kind
IsPathLine(l) == IsKind("path", l)
IsEntryLine(l) == IsKind("entry", l)
IsMessageLine(l) == IsKind("message", l)

PathsIn(lines) == [k \in 1..Len(lines) |-> lines[k].filePath]

AfterFilter == mode \in Modes /\ pc \in {"header", "loop", "messages", "message"}

(***************************************************************************)
(* C1: on every Report, the filter of each script leaves in `entries`      *)
(* exactly the entries with errorCount > 0 or warningCount > 0, in report  *)
(* order (lint_files.py keeps their filePath values); the empty Report     *)
(* gives the empty list.                                                   *)
(***************************************************************************)
C1_FilterExact ==
    (IsReport /\ AfterFilter) =>
        entries = IF mode = "lint_files"
                  THEN [k \in 1..Len(FlaggedEntries) |-> FlaggedEntries[k].fields["filePath"]]
                  ELSE FlaggedEntries

C1_Witness ==
    /\ IsReport
    /\ mode = "lint_summary"
    /\ pc = "loop"
    /\ Len(entries) >= 1
    /\ Len(entries) < Len(file.value.items)

(***************************************************************************)
(* C2: lint_report_summary prints the header with the total number N of    *)
(* flagged entries, then one line for each of the first min(N, 20) flagged *)
(* entries in filtered order, and never more than 20 entry lines.          *)
(***************************************************************************)
CompactExpected ==
    <<[kind |-> "header", count |-> Len(FlaggedEntries)]>> \o
    [k \in 1..Min(Len(FlaggedEntries), 20) |->
        [kind |-> "entry", filePath |-> PathText(FlaggedEntries[k]),
         count |-> Len(MessagesOf(FlaggedEntries[k]))]]

C2_CompactCap ==
    IsReport =>
        /\ IsPrefix(stdout["lint_report_summary"], CompactExpected)
        /\ Len(SelectSeq(stdout["lint_report_summary"], IsEntryLine)) <= 20
        /\ status["lint_report_summary"] = "exited" =>
               stdout["lint_report_summary"] = CompactExpected

C2_Witness ==
    /\ IsReport
    /\ status["lint_report_summary"] = "exited"
    /\ Len(FlaggedEntries) > 20
    /\ Len(stdout["lint_report_summary"]) = 21
    /\ stdout["lint_report_summary"][1].count = Len(FlaggedEntries)

(***************************************************************************)
(* C3: lint_summary prints the header with count N and then N blocks, one  *)
(* per flagged entry in filtered order and without a cap: a blank line,    *)
(* the filePath line, then one line per message in message order.          *)
(***************************************************************************)
ExpectedMessageLine(msg) ==
    [kind |-> "message",
     rule |-> IF HasKey(msg, "ruleId") THEN msg.fields["ruleId"].s ELSE "<no-rule>",
     message |-> IF HasKey(msg, "message") THEN msg.fields["message"].s ELSE "<no-message>",
     line |-> IF HasKey(msg, "line") THEN ToString(msg.fields["line"].n) ELSE "0",
     col |-> IF HasKey(msg, "column") THEN ToString(msg.fields["column"].n) ELSE "0"]

RECURSIVE BlocksOf(_)
BlocksOf(es) ==
    IF Len(es) = 0 THEN <<>>
    ELSE <<[kind |-> "blank"], [kind |-> "path", filePath |-> PathText(Head(es))]>>
         \o [k \in 1..Len(MessagesOf(Head(es))) |-> ExpectedMessageLine(MessagesOf(Head(es))[k])]
         \o BlocksOf(Tail(es))

DetailedExpected ==
    <<[kind |-> "header", count |-> Len(FlaggedEntries)]>> \o BlocksOf(FlaggedEntries)

C3_DetailedBlocks ==
    IsReport =>
        /\ IsPrefix(stdout["lint_summary"], DetailedExpected)
        /\ status["lint_summary"] = "exited" => stdout["lint_summary"] = DetailedExpected

C3_Witness ==
    /\ IsReport
    /\ status["lint_summary"] = "exited"
    /\ Len(FlaggedEntries) > 20
    /\ Len(SelectSeq(stdout["lint_summary"], IsPathLine)) = Len(FlaggedEntries)
    /\ Len(SelectSeq(stdout["lint_summary"], IsMessageLine)) >= 1

(***************************************************************************)
(* C4: with the report file missing, every script exits with a non-zero    *)
(* status and the message telling to generate the report, printing nothing.*)
(***************************************************************************)
C4_MissingReport ==
    \A m \in Modes :
        (~file.exists /\ status[m] = "exited") =>
            /\ exitcode[m] # 0
            /\ stderr[m] = NotFoundMessage
            /\ stdout[m] = <<>>

(***************************************************************************)
(* C5: when the file exists but is not valid JSON or not an array of       *)
(* objects, every script fails with a non-zero status and prints nothing.  *)
(***************************************************************************)
C5_MalformedReport ==
    \A m \in Modes :
        (file.exists /\ ~IsArrayOfObjects) =>
            /\ stdout[m] = <<>>
            /\ status[m] = "exited" => exitcode[m] # 0

(***************************************************************************)
(* C6: an entry lacking errorCount or warningCount, the other count zero   *)
(* or absent, appears in no output; a message line shows "<no-rule>" for   *)
(* an absent ruleId, "<no-message>" for an absent message and 0 for an     *)
(* absent line or column, and rendering it never fails.                    *)
(***************************************************************************)
RECURSIVE MessagesOfAll(_)
MessagesOfAll(es) ==
    IF Len(es) = 0 THEN <<>> ELSE MessagesOf(Head(es)) \o MessagesOfAll(Tail(es))

UnflaggedByAbsence(e) ==
    /\ ~HasKey(e, "errorCount") \/ ~HasKey(e, "warningCount")
    /\ CountOf(e, "errorCount") = 0
    /\ CountOf(e, "warningCount") = 0

Mentions(m, e) ==
    \E k \in 1..Len(stdout[m]) :
        /\ stdout[m][k].kind \in {"path", "entry"}
        /\ stdout[m][k].filePath = PathText(e)

C6_MissingFieldDefaults ==
    IsReport =>
        /\ \A m \in Modes : \A n \in 1..Len(file.value.items) :
               UnflaggedByAbsence(file.value.items[n]) => ~Mentions(m, file.value.items[n])
        /\ LET shown == SelectSeq(stdout["lint_summary"], IsMessageLine)
               all == MessagesOfAll(FlaggedEntries)
           IN /\ Len(shown) <= Len(all)
              /\ \A k \in 1..Len(shown) :
                    /\ ~HasKey(all[k], "ruleId") => shown[k].rule = "<no-rule>"
                    /\ ~HasKey(all[k], "message") => shown[k].message = "<no-message>"
                    /\ ~HasKey(all[k], "line") => shown[k].line = "0"
                    /\ ~HasKey(all[k], "column") => shown[k].col = "0"
              /\ status["lint_summary"] = "exited" =>
                    Len(shown) = Len(all) /\ exitcode["lint_summary"] = 0

C6_Witness ==
    /\ IsReport
    /\ status["lint_summary"] = "exited"
    /\ LET shown == SelectSeq(stdout["lint_summary"], IsMessageLine)
           all == MessagesOfAll(FlaggedEntries)
       IN /\ Len(shown) = 2
          /\ DOMAIN all[1].fields = {}
          /\ DOMAIN all[2].fields = {"ruleId", "line"}
          /\ shown[1].line = "0" /\ shown[1].col = "0"
          /\ shown[2].message = "<no-message>" /\ shown[2].line = "3"

(***************************************************************************)
(* C7: an entry with a positive count and no messages is still listed:     *)
(* lint_report_summary shows it with count 0 (the count is always the      *)
(* length of messages), lint_summary prints its blank line and filePath    *)
(* line with no message line beneath; an entry with 0/0 counts and         *)
(* messages is not listed by any script.                                   *)
(***************************************************************************)
BareBlockAt(lines, p, e) ==
    /\ lines[p] = [kind |-> "blank"]
    /\ lines[p + 1] = [kind |-> "path", filePath |-> PathText(e)]
    /\ p + 2 <= Len(lines) => lines[p + 2].kind = "blank"

C7_FlaggedWithoutMessages ==
    IsReport =>
        /\ \A k \in 2..Len(stdout["lint_report_summary"]) :
               /\ stdout["lint_report_summary"][k].filePath = PathText(FlaggedEntries[k - 1])
               /\ stdout["lint_report_summary"][k].count = Len(MessagesOf(FlaggedEntries[k - 1]))
        /\ status["lint_report_summary"] = "exited" =>
               \A k \in 1..Min(Len(FlaggedEntries), 20) :
                   Len(MessagesOf(FlaggedEntries[k])) = 0 =>
                       /\ Len(stdout["lint_report_summary"]) > k
                       /\ stdout["lint_report_summary"][k + 1].count = 0
        /\ status["lint_summary"] = "exited" =>
               \A k \in 1..Len(FlaggedEntries) :
                   Len(MessagesOf(FlaggedEntries[k])) = 0 =>
                       \E p \in 1..(Len(stdout["lint_summary"]) - 1) :
                           BareBlockAt(stdout["lint_summary"], p, FlaggedEntries[k])
        /\ \A m \in Modes : \A n \in 1..Len(file.value.items) :
               (~Flagged(file.value.items[n]) /\ Len(MessagesOf(file.value.items[n])) > 0)
                   => ~Mentions(m, file.value.items[n])

C7_Witness ==
    /\ IsReport
    /\ \A m \in Modes : status[m] = "exited"
    /\ Len(file.value.items) = 2
    /\ Flagged(file.value.items[1])
    /\ CountOf(file.value.items[1], "errorCount") + CountOf(file.value.items[1], "warningCount") = 3
    /\ ~HasKey(file.value.items[1], "messages")
    /\ ~Flagged(file.value.items[2])
    /\ Len(MessagesOf(file.value.items[2])) = 1
    /\ stdout["lint_report_summary"][2].count = 0
    /\ Len(stdout["lint_summary"]) = 3

(***************************************************************************)
(* C8: lint_files prints one line per flagged entry holding only its       *)
(* filePath, in filtered order, and no other line; nothing when no entry   *)
(* is flagged.                                                             *)
(***************************************************************************)
FilesExpected ==
    [k \in 1..Len(FlaggedEntries) |->
        [kind |-> "path", filePath |-> PathText(FlaggedEntries[k])]]

C8_PathListing ==
    IsReport =>
        /\ IsPrefix(stdout["lint_files"], FilesExpected)
        /\ status["lint_files"] = "exited" => stdout["lint_files"] = FilesExpected

C8_Witness ==
    /\ IsReport
    /\ status["lint_files"] = "exited"
    /\ Len(stdout["lint_files"]) >= 2
    /\ Len(stdout["lint_files"]) < Len(file.value.items)

(***************************************************************************)
(* C9: on a well-formed report every started script runs to completion and *)
(* exits with status 0; with no flagged entry the two summaries print the  *)
(* header with count 0 and nothing else.                                   *)
(***************************************************************************)
C9_RunsToCompletion ==
    /\ [](IsWellFormed =>
            \A m \in Modes : status[m] = "exited" => (exitcode[m] = 0 /\ stderr[m] = ""))
    /\ []((IsReport /\ Len(FlaggedEntries) = 0) =>
            \A m \in {"lint_report_summary", "lint_summary"} :
                status[m] = "exited" => stdout[m] = <<[kind |-> "header", count |-> 0]>>)
    /\ \A m \in Modes :
         (IsWellFormed /\ status[m] = "running") ~> (status[m] = "exited" /\ exitcode[m] = 0)

C9_Witness ==
    /\ IsReport
    /\ Len(file.value.items) = 2
    /\ Len(FlaggedEntries) = 0
    /\ \A m \in Modes : status[m] = "exited" /\ exitcode[m] = 0
    /\ stdout["lint_summary"] = <<[kind |-> "header", count |-> 0]>>
    /\ stdout["lint_files"] = <<>>

(***************************************************************************)
(* C10: the three scripts agree on every well-formed report: lint_files'   *)
(* paths are the paths of lint_summary's blocks, lint_report_summary's     *)
(* entry lines carry the first min(N, 20) of them, and both header counts  *)
(* equal the number of lines lint_files prints.                            *)
(***************************************************************************)
C10_ScriptsAgree ==
    (IsWellFormed /\ \A m \in Modes : status[m] = "exited") =>
        LET listed == PathsIn(stdout["lint_files"])
            blocks == PathsIn(SelectSeq(stdout["lint_summary"], IsPathLine))
            compact == PathsIn(SelectSeq(stdout["lint_report_summary"], IsEntryLine))
        IN /\ listed = blocks
           /\ compact = SubSeq(blocks, 1, Min(Len(listed), 20))
           /\ stdout["lint_report_summary"][1] = [kind |-> "header", count |-> Len(listed)]
           /\ stdout["lint_summary"][1] = [kind |-> "header", count |-> Len(listed)]

C10_Witness ==
    /\ IsWellFormed
    /\ \A m \in Modes : status[m] = "exited"
    /\ Len(stdout["lint_files"]) > 20
    /\ Len(SelectSeq(stdout["lint_summary"], IsPathLine)) = Len(stdout["lint_files"])
    /\ Len(stdout["lint_report_summary"]) = 21

====
